---- MODULE Spec2Model ----
(***************************************************************************)
(* Model of password_strength_checker.py: the Streamlit script body (one   *)
(* run per submitted password), the cached artifact loader, the feature    *)
(* extraction and the four-model prediction loop of                        *)
(* check_password_strength, and the report written by create_pdf.          *)
(*                                                                         *)
(* A password is a sequence of one-character strings.  Displayed text and  *)
(* dictionary values are strings, built with \o as the f-strings build     *)
(* them.                                                                   *)
(***************************************************************************)
EXTENDS Integers, Sequences, FiniteSets, TLC

(***************************************************************************)
(* Bounds of the model.                                                    *)
(***************************************************************************)
\* longest password of the script runs (lengths 0..MaxLen are all submitted)
MaxLen == 14
\* longest string of the feature-extraction specification
MaxStrLen == 3

(***************************************************************************)
(* Characters and Python's str predicates on them.                         *)
(***************************************************************************)
LowerChars == {"a", "b", "c", "e", "h", "i", "n", "s", "u"}
UpperChars == {"A", "B", "C", "S"}
DigitChars == {"0", "1", "2", "4"}

\* c.islower()
islower(c) == c \in LowerChars
\* c.isupper()
isupper(c) == c \in UpperChars
\* c.isalnum()
isalnum(c) == c \in LowerChars \cup UpperChars \cup DigitChars

\* any(bs) for an iterable of bools: scans from the left, stops at the first hit
RECURSIVE any(_)
any(bs) ==
    IF bs = <<>> THEN FALSE
    ELSE IF Head(bs) THEN TRUE
    ELSE any(Tail(bs))

\* int(b) for a bool b
int(b) == IF b THEN 1 ELSE 0

\* not c.isalnum()
isspecial(c) == ~isalnum(c)

\* the uppercase test written with islower
ExtractNoUpper(password) ==
    [HasLowercase |-> int(any([j \in DOMAIN password |-> islower(password[j])])),
     HasUppercase |-> int(any([j \in DOMAIN password |-> islower(password[j])])),
     HasSpecial   |-> int(any([j \in DOMAIN password |-> isspecial(password[j])])),
     Length       |-> Len(password)]
\* the dict `features` of check_password_strength (one row of X)
Extract(password) ==
    [HasLowercase |-> int(any([j \in DOMAIN password |-> islower(password[j])])),
     HasUppercase |-> int(any([j \in DOMAIN password |-> isupper(password[j])])),
     HasSpecial   |-> int(any([j \in DOMAIN password |-> isspecial(password[j])])),
     Length       |-> Len(password)]

\* "".join(password): the password as the f-strings print it
RECURSIVE Str(_)
Str(s) == IF s = <<>> THEN "" ELSE Head(s) \o Str(Tail(s))

(***************************************************************************)
(* The length heuristic of the script body.                                *)
(***************************************************************************)
StrongMin == 13
MediumMin == 9
ShortLimit == 6

\* the thresholds compared with > instead of >=
StrengthInfoOffByOne(length) ==
    IF length > StrongMin THEN <<"Strong", "Strong password", "green">>
    ELSE IF length > MediumMin THEN <<"Medium", "Moderate password", "orange">>
    ELSE <<"Weak", "Weak password", "red">>
\* strength_info (the emoji of the fourth component is left out)
StrengthInfo(length) ==
    IF length >= StrongMin THEN <<"Strong", "Strong password", "green">>
    ELSE IF length >= MediumMin THEN <<"Medium", "Moderate password", "orange">>
    ELSE <<"Weak", "Weak password", "red">>

\* the advisory one character too late
ShortWarningOffByOne(password) == Len(password) < ShortLimit - 1
\* the condition of st.warning("Your password is very short ...")
ShortWarning(password) == Len(password) < ShortLimit

(***************************************************************************)
(* Artifacts, classifiers and the label decoder.                           *)
(***************************************************************************)
\* keys of model_urls in the order check_password_strength loads them
LoadOrder == <<"label_encoder", "logistic_regression", "random_forest", "knn", "svm">>

\* keys of the dict `models`, in insertion order
ModelNames == <<"Logistic Regression", "Random Forest", "K-Nearest Neighbors",
                "Support Vector Machine">>

\* keys of style_map: the labels the decoder was fitted on, in the order
\* a label encoder stores them (sorted)
classes_ == <<"Medium", "Strong", "Weak">>
Labels == {classes_[j] : j \in DOMAIN classes_}

\* what model.predict(X)[0] can return: a class id the decoder knows
\* (0 .. Len-1), or one it does not know (Len)
ClassIds == 0 .. Len(classes_)

\* str(e) of the exceptions a predict call raises; one of them reads like a label
Descs == {"Weak", "timed out"}

\* str(e) of the exception label_encoder.inverse_transform raises
UnseenDesc == "y contains previously unseen labels"

\* label_encoder.inverse_transform([n])[0] succeeds
CanDecode(n) == n + 1 \in DOMAIN classes_
\* its value
inverse_transform(n) == classes_[n + 1]

\* values datetime.now().strftime(...) takes
Times == {"2024-01-01 00:00:00", "2024-12-31 23:59:59"}

\* d[k] = v on a dict kept as a sequence of <<key, value>> in insertion order
DictSet(d, k, v) ==
    IF \E j \in DOMAIN d : d[j][1] = k
    THEN [j \in DOMAIN d |-> IF d[j][1] = k THEN <<k, v>> ELSE d[j]]
    ELSE Append(d, <<k, v>>)

\* list(d.keys())
Keys(d) == [j \in DOMAIN d |-> d[j][1]]

\* `predictions = {}`
NewPredictions == <<>>

\* the style_map of the script body; style_map.get(result, default)
StyleColor(result) ==
    CASE result = "Weak" -> "red"
      [] result = "Medium" -> "orange"
      [] result = "Strong" -> "green"
      [] OTHER -> "black"
StyleDescription(result) ==
    CASE result = "Weak" -> "Weak password"
      [] result = "Medium" -> "Moderate password"
      [] result = "Strong" -> "Strong password"
      [] OTHER -> result

\* only the entries style_map knows are shown
ShowPredictionsStyledOnly(predictions) ==
    LET known(p) == p[2] \in {"Weak", "Medium", "Strong"}
        shown == SelectSeq(predictions, known)
    IN  [j \in DOMAIN shown |->
            [model |-> shown[j][1], result |-> shown[j][2],
             color |-> StyleColor(shown[j][2]),
             description |-> StyleDescription(shown[j][2])]]
\* the lines st.markdown writes in `for model, result in predictions.items()`
ShowPredictions(predictions) ==
    [j \in DOMAIN predictions |->
        [model |-> predictions[j][1], result |-> predictions[j][2],
         color |-> StyleColor(predictions[j][2]),
         description |-> StyleDescription(predictions[j][2])]]

\* the prediction cell written after the loop instead of inside it
create_pdfLastOnly(password, predictions, now) ==
    <<[label |-> "", text |-> "Password Strength Report"],
      [label |-> "Password", text |-> Str(password)],
      [label |-> "Timestamp", text |-> now]>>
    \o (IF predictions = <<>> THEN <<>>
        ELSE <<[label |-> predictions[Len(predictions)][1],
                text |-> predictions[Len(predictions)][2]]>>)
\* the cells create_pdf writes, in order
create_pdf(password, predictions, now) ==
    <<[label |-> "", text |-> "Password Strength Report"],
      [label |-> "Password", text |-> Str(password)],
      [label |-> "Timestamp", text |-> now]>>
    \o [j \in DOMAIN predictions |->
          [label |-> predictions[j][1], text |-> predictions[j][2]]]

(***************************************************************************)
(* Passwords submitted to the script.                                      *)
(***************************************************************************)
Fill(c, n) == [j \in 1 .. n |-> c]
Sunshine == <<"S", "u", "n", "s", "h", "i", "n", "e", "2", "0", "2", "4", "!">>
Passwords == {Fill("a", n) : n \in 0 .. MaxLen} \cup {Sunshine, <<"a", "1", "!">>}

Chars == {"a", "b", "c", "A", "B", "C", "1", "!"}
RECURSIVE StringsUpTo(_)
StringsUpTo(n) ==
    IF n = 0 THEN {<<>>}
    ELSE LET S == StringsUpTo(n - 1)
         IN  S \cup {Append(s, c) : s \in {t \in S : Len(t) = n - 1}, c \in Chars}

(***************************************************************************)
(* State.                                                                  *)
(***************************************************************************)
VARIABLES
    password,       \* value of the text input in the current script run
    cache,          \* keys whose artifact st.cache_resource holds
    pc,             \* position of the script run
    k,              \* index in LoadOrder of the artifact being loaded
    i,              \* index in ModelNames of the loop iteration
    X,              \* the feature row, or <<>>
    pred_num,       \* result of the last predict call
    predictions,    \* the dict `predictions`
    screen,         \* what the run has written to the page
    report,         \* the cells of the PDF, or <<>>
    behaviour,      \* what each classifier handle did on X, in loop order
    calls,          \* calls made and entries written in this invocation
    prev            \* `predictions` returned by the run before a rerun

vars == <<password, cache, pc, k, i, X, pred_num, predictions,
          screen, report, behaviour, calls, prev>>

\* the marker without its prefix
ErrorMarkerBare(e) == e
\* the marker with a note on every invocation after the first
ErrorMarkerCounted(e) == "Error: " \o e \o (IF prev # <<>> THEN " (again)" ELSE "")
\* f"Error: {e}"
ErrorMarker(e) == "Error: " \o e

BlankScreen == [warning |-> FALSE, strength |-> <<>>, error |-> "", lines |-> <<>>,
                ready |-> FALSE]

Terminal == {"idle", "stopped", "crashed", "done"}

Init ==
    /\ password = <<>>
    /\ cache = {}
    /\ pc = "idle"
    /\ k = 0
    /\ i = 0
    /\ X = <<>>
    /\ pred_num = 0
    /\ predictions = <<>>
    /\ screen = BlankScreen
    /\ report = <<>>
    /\ behaviour = <<>>
    /\ calls = <<>>
    /\ prev = <<>>

\* the script body from the text input to the call of check_password_strength,
\* and the feature row built at its start
Body(pw) ==
    /\ password' = pw
    /\ i' = 0
    /\ pred_num' = 0
    /\ predictions' = <<>>
    /\ report' = <<>>
    /\ calls' = <<>>
    /\ IF pw = <<>>
       THEN /\ screen' = BlankScreen
            /\ X' = <<>>
            /\ pc' = "idle"
            /\ k' = 0
       ELSE /\ screen' = [BlankScreen EXCEPT !.warning = ShortWarning(pw),
                                             !.strength = StrengthInfo(Len(pw))]
            /\ X' = Extract(pw)
            /\ pc' = "load"
            /\ k' = 1

\* the user enters a password: a script run with a new widget value
Submit ==
    /\ pc \in Terminal
    /\ \E pw \in Passwords : Body(pw)
    /\ behaviour' = <<>>
    /\ prev' = <<>>
    /\ UNCHANGED cache

\* the user clicks the eye button: a script run with the same widget value,
\* on the same cached handles (the visibility flag it toggles is left out)
Rerun ==
    /\ pc \in Terminal
    /\ Body(password)
    /\ prev' = IF pc = "done" THEN predictions ELSE <<>>
    /\ UNCHANGED <<cache, behaviour>>

(***************************************************************************)
(* load_model_from_url, called five times by check_password_strength.      *)
(***************************************************************************)
\* the call returned: on to the next artifact, or into the loop
Loaded ==
    IF k = Len(LoadOrder)
    THEN /\ pc' = "predict"
         /\ i' = 1
         /\ predictions' = NewPredictions
         /\ k' = k
    ELSE /\ k' = k + 1
         /\ UNCHANGED <<pc, i, predictions>>

\* st.cache_resource holds the artifact
LoadCached ==
    /\ pc = "load"
    /\ LoadOrder[k] \in cache
    /\ Loaded
    /\ UNCHANGED <<password, cache, X, pred_num, screen, report,
                   behaviour, calls, prev>>

\* status 200 and joblib.load returns: the artifact is cached
LoadOk ==
    /\ pc = "load"
    /\ LoadOrder[k] \notin cache
    /\ cache' = cache \cup {LoadOrder[k]}
    /\ Loaded
    /\ UNCHANGED <<password, X, pred_num, screen, report,
                   behaviour, calls, prev>>

\* status other than 200: st.error and st.stop end the script run
LoadHttpError ==
    /\ pc = "load"
    /\ LoadOrder[k] \notin cache
    /\ screen' = [screen EXCEPT !.error = "Failed to load model"]
    /\ pc' = "stopped"
    /\ UNCHANGED <<password, cache, k, i, X, pred_num, predictions,
                   report, behaviour, calls, prev>>

\* requests.get or joblib.load raises: nothing catches it, the run ends
LoadRaise ==
    /\ pc = "load"
    /\ LoadOrder[k] \notin cache
    /\ screen' = [screen EXCEPT !.error = "exception"]
    /\ pc' = "crashed"
    /\ UNCHANGED <<password, cache, k, i, X, pred_num, predictions,
                   report, behaviour, calls, prev>>

(***************************************************************************)
(* The loop `for name, model in models.items()`.                           *)
(***************************************************************************)
\* the handle is stateless: on a rerun it does what it did on the same X
Does(outcome) ==
    IF i <= Len(behaviour)
    THEN behaviour[i] = outcome /\ UNCHANGED behaviour
    ELSE behaviour' = Append(behaviour, outcome)

\* the index of the next iteration
NextModel(j) == j + 1

\* model.predict(X)[0] returns a class id
PredictOk ==
    /\ pc = "predict"
    /\ i <= Len(ModelNames)
    /\ \E n \in ClassIds :
          /\ Does(<<"returns", n>>)
          /\ pred_num' = n
    /\ calls' = Append(calls, <<"predict", ModelNames[i]>>)
    /\ pc' = "decode"
    /\ UNCHANGED <<password, cache, k, i, X, predictions, screen,
                   report, prev>>

\* the except clause writes nothing
PredictRaiseSilent ==
    /\ pc = "predict"
    /\ i <= Len(ModelNames)
    /\ \E e \in Descs : Does(<<"raises", e>>)
    /\ calls' = Append(calls, <<"predict", ModelNames[i]>>)
    /\ i' = NextModel(i)
    /\ UNCHANGED <<password, cache, pc, k, X, pred_num, predictions, screen,
                   report, prev>>
\* the except clause writes the entry and the same classifier is tried again
PredictRaiseRetry ==
    /\ pc = "predict"
    /\ i <= Len(ModelNames)
    /\ \E e \in Descs :
          /\ Does(<<"raises", e>>)
          /\ predictions' = DictSet(predictions, ModelNames[i], ErrorMarker(e))
    /\ calls' = calls \o <<(<<"predict", ModelNames[i]>>), (<<"write", ModelNames[i]>>)>>
    /\ UNCHANGED <<password, cache, pc, k, i, X, pred_num, screen, report, prev>>
\* model.predict raises: the except clause writes the entry
PredictRaise ==
    /\ pc = "predict"
    /\ i <= Len(ModelNames)
    /\ \E e \in Descs :
          /\ Does(<<"raises", e>>)
          /\ predictions' = DictSet(predictions, ModelNames[i], ErrorMarker(e))
    /\ calls' = calls \o <<(<<"predict", ModelNames[i]>>), (<<"write", ModelNames[i]>>)>>
    /\ i' = NextModel(i)
    /\ UNCHANGED <<password, cache, pc, k, X, pred_num, screen,
                   report, prev>>

\* label_encoder.inverse_transform returns the label: the entry is written
DecodeOk ==
    /\ pc = "decode"
    /\ CanDecode(pred_num)
    /\ predictions' = DictSet(predictions, ModelNames[i], inverse_transform(pred_num))
    /\ calls' = calls \o <<(<<"decode", ModelNames[i]>>), (<<"write", ModelNames[i]>>)>>
    /\ i' = NextModel(i)
    /\ pc' = "predict"
    /\ UNCHANGED <<password, cache, k, X, pred_num, screen, report,
                   behaviour, prev>>

\* the except clause writes the entry and leaves the loop
DecodeRaiseAbort ==
    /\ pc = "decode"
    /\ ~CanDecode(pred_num)
    /\ predictions' = DictSet(predictions, ModelNames[i], ErrorMarker(UnseenDesc))
    /\ calls' = calls \o <<(<<"decode", ModelNames[i]>>), (<<"write", ModelNames[i]>>)>>
    /\ i' = Len(ModelNames) + 1
    /\ pc' = "predict"
    /\ UNCHANGED <<password, cache, k, X, pred_num, screen, report, behaviour, prev>>
\* label_encoder.inverse_transform raises: the except clause writes the entry
DecodeRaise ==
    /\ pc = "decode"
    /\ ~CanDecode(pred_num)
    /\ predictions' = DictSet(predictions, ModelNames[i], ErrorMarker(UnseenDesc))
    /\ calls' = calls \o <<(<<"decode", ModelNames[i]>>), (<<"write", ModelNames[i]>>)>>
    /\ i' = NextModel(i)
    /\ pc' = "predict"
    /\ UNCHANGED <<password, cache, k, X, pred_num, screen, report,
                   behaviour, prev>>

\* the loop is over: predictions are returned and shown, the PDF is made
Finish ==
    /\ pc = "predict"
    /\ i > Len(ModelNames)
    /\ \E now \in Times :
          report' = create_pdf(password, predictions, now)
    /\ screen' = [screen EXCEPT !.lines = ShowPredictions(predictions),
                                !.ready = TRUE]
    /\ pc' = "done"
    /\ UNCHANGED <<password, cache, k, i, X, pred_num, predictions,
                   behaviour, calls, prev>>

Next ==
    \/ Submit
    \/ Rerun
    \/ LoadCached
    \/ LoadOk
    \/ LoadHttpError
    \/ LoadRaise
    \/ PredictOk
    \/ PredictRaise
    \/ DecodeOk
    \/ DecodeRaise
    \/ Finish

Spec == Init /\ [][Next]_vars
(***************************************************************************)
(* Feature extraction alone, over every string of at most MaxStrLen        *)
(* characters of Chars.                                                    *)
(***************************************************************************)
InitExtract ==
    /\ password \in StringsUpTo(MaxStrLen)
    /\ cache = {}
    /\ pc = "input"
    /\ k = 0
    /\ i = 0
    /\ X = <<>>
    /\ pred_num = 0
    /\ predictions = <<>>
    /\ screen = BlankScreen
    /\ report = <<>>
    /\ behaviour = <<>>
    /\ calls = <<>>
    /\ prev = <<>>

\* the first statement of check_password_strength
ExtractFeatures ==
    /\ pc = "input"
    /\ X' = Extract(password)
    /\ pc' = "extracted"
    /\ UNCHANGED <<password, cache, k, i, pred_num, predictions, screen, report,
                   behaviour, calls, prev>>

NextExtract == ExtractFeatures

SpecExtract == InitExtract /\ [][NextExtract]_vars

(***************************************************************************)
(* Properties.                                                             *)
(***************************************************************************)
\* check_password_strength has returned
Returned == pc = "done" \/ (pc = "predict" /\ i > Len(ModelNames))

\* the classifier of iteration j failed, in predict or in decode
Failed(j) == behaviour[j][1] = "raises" \/ ~(behaviour[j][2] + 1 \in DOMAIN classes_)

BucketNames == {"Weak", "Medium", "Strong"}

\* C1: the prediction record check_password_strength returns has exactly four
\* entries, keyed by the four model names in their declared order, whatever
\* the predict and decode calls did (all of them raising included).
C1_FourEntriesInOrder ==
    Returned =>
        /\ Len(predictions) = 4
        /\ Keys(predictions) =
              <<"Logistic Regression", "Random Forest", "K-Nearest Neighbors",
                "Support Vector Machine">>

\* every classifier failed and the record is complete
C1_Witness ==
    /\ pc = "done"
    /\ \A j \in 1 .. 4 : Failed(j)
    /\ Len(predictions) = 4

\* C2: a failure of one classifier does not stop the others: every classifier
\* is attempted, and the entry of each classifier that did not fail is the
\* decoded label of its own prediction.
C2_FailureIsolation ==
    Returned =>
        \A j \in 1 .. Len(ModelNames) :
            /\ \E c \in DOMAIN calls : calls[c] = <<"predict", ModelNames[j]>>
            /\ j <= Len(behaviour)
            /\ ~Failed(j) =>
                  /\ j <= Len(predictions)
                  /\ predictions[j] = <<ModelNames[j], classes_[behaviour[j][2] + 1]>>

\* the first classifier raised in predict, the second failed in decode, and
\* the last two hold their own, different labels
C2_Witness ==
    /\ pc = "done"
    /\ behaviour[1][1] = "raises"
    /\ behaviour[2] = <<"returns", Len(classes_)>>
    /\ behaviour[3] = <<"returns", 0>>
    /\ behaviour[4] = <<"returns", 2>>
    /\ predictions[3][2] = "Medium"
    /\ predictions[4][2] = "Weak"

\* C3 as stated: every run on a submitted password ends with a bucket and
\* four prediction entries on the page, whatever the loads did.
C3_Original ==
    (pc \in Terminal /\ password # <<>>) =>
        /\ screen.strength # <<>>
        /\ Len(screen.lines) = 4

\* C3 amended: a run on a non-empty password ends with the bucket shown; it
\* ends with exactly four prediction entries (each a label or an error marker)
\* when the decoder and the four models were loaded, and with an error and no
\* prediction entry when the load of an artifact not yet cached failed.  A run
\* on the empty string shows nothing.
C3_FourEntriesWhenLoaded ==
    /\ (pc \in Terminal /\ password # <<>>) =>
          /\ screen.strength # <<>>
          /\ screen.strength[1] \in BucketNames
          /\ pc \in {"done", "stopped", "crashed"}
          /\ pc = "done" =>
                /\ \A a \in DOMAIN LoadOrder : LoadOrder[a] \in cache
                /\ [j \in DOMAIN screen.lines |-> screen.lines[j].model] = ModelNames
                /\ \A j \in DOMAIN screen.lines :
                      \/ screen.lines[j].result \in Labels
                      \/ \E e \in Descs \cup {UnseenDesc} :
                            screen.lines[j].result = "Error: " \o e
          /\ pc \in {"stopped", "crashed"} =>
                /\ LoadOrder[k] \notin cache
                /\ screen.error # ""
                /\ screen.lines = <<>>
    /\ (pc \in Terminal /\ password = <<>>) =>
          /\ pc = "idle"
          /\ screen = BlankScreen

\* all artifacts loaded, one classifier failed, four entries are shown
C3_Witness ==
    /\ pc = "done"
    /\ Len(screen.lines) = 4
    /\ screen.lines[2].result = "Error: timed out"
    /\ screen.strength[1] = "Medium"

\* C4: the bucket is Strong for length >= 13, Medium for 9..12 and Weak for
\* length <= 8, for every length from 0 on, so its rank never decreases as
\* the length grows; 8 is Weak, 9 and 12 are Medium, 13 is Strong.
Rank(b) == CASE b = "Weak" -> 0 [] b = "Medium" -> 1 [] b = "Strong" -> 2
C4_LengthBuckets ==
    /\ \A n \in 0 .. MaxLen :
          /\ n >= 13 => StrengthInfo(n)[1] = "Strong"
          /\ (9 <= n /\ n <= 12) => StrengthInfo(n)[1] = "Medium"
          /\ n <= 8 => StrengthInfo(n)[1] = "Weak"
    /\ \A m, n \in 0 .. MaxLen :
          m <= n => Rank(StrengthInfo(m)[1]) <= Rank(StrengthInfo(n)[1])
    /\ StrengthInfo(8)[1] = "Weak"
    /\ StrengthInfo(9)[1] = "Medium"
    /\ StrengthInfo(12)[1] = "Medium"
    /\ StrengthInfo(13)[1] = "Strong"
    /\ screen.strength # <<>> =>
          screen.strength[1] =
              IF Len(password) >= 13 THEN "Strong"
              ELSE IF Len(password) >= 9 THEN "Medium"
              ELSE "Weak"

\* a password of 13 characters is shown as Strong
C4_Witness ==
    /\ pc = "load"
    /\ Len(password) = 13
    /\ screen.strength = <<"Strong", "Strong password", "green">>

\* C5: the features of a string are: lowercase present, uppercase present,
\* a character that is neither a letter nor a digit present, and the number
\* of characters; "" gives (0,0,0,0), "abc" (1,0,0,3), "ABC" (0,1,0,3) and
\* "a1!" (1,0,1,3).
Features(l, u, s, n) ==
    [HasLowercase |-> l, HasUppercase |-> u, HasSpecial |-> s, Length |-> n]
C5_FeatureExtraction ==
    pc = "extracted" =>
        /\ X.HasLowercase \in {0, 1}
        /\ X.HasUppercase \in {0, 1}
        /\ X.HasSpecial \in {0, 1}
        /\ X.HasLowercase = 1 <=> \E j \in DOMAIN password : password[j] \in LowerChars
        /\ X.HasUppercase = 1 <=> \E j \in DOMAIN password : password[j] \in UpperChars
        /\ X.HasSpecial = 1 <=>
              \E j \in DOMAIN password :
                  password[j] \notin LowerChars \cup UpperChars \cup DigitChars
        /\ X.Length = Len(password)
        /\ password = <<>> => X = Features(0, 0, 0, 0)
        /\ password = <<"a", "b", "c">> => X = Features(1, 0, 0, 3)
        /\ password = <<"A", "B", "C">> => X = Features(0, 1, 0, 3)
        /\ password = <<"a", "1", "!">> => X = Features(1, 0, 1, 3)

\* the features of "a1!" have been extracted
C5_Witness ==
    /\ pc = "extracted"
    /\ password = <<"a", "1", "!">>
    /\ X = Features(1, 0, 1, 3)

\* C6 as stated: a password shorter than 6 characters always gets the
\* short-password advisory, next to a bucket.
C6_Original ==
    (pc \in Terminal /\ Len(password) < 6) =>
        /\ screen.warning
        /\ screen.strength # <<>>
        /\ screen.strength[1] \in BucketNames

\* C6 amended: a non-empty password shorter than 6 characters always gets the
\* advisory, and the bucket shown with it is the one the length thresholds
\* give (Weak); a password of 6 or more characters does not get it; the empty
\* string gets neither advisory nor bucket.
C6_ShortAdvisory ==
    /\ (pc # "idle" /\ Len(password) < 6) =>
          /\ screen.warning
          /\ screen.strength # <<>>
          /\ screen.strength[1] \in BucketNames
          /\ screen.strength[1] = "Weak"
    /\ (pc # "idle" /\ Len(password) >= 6) => ~screen.warning
    /\ pc = "idle" =>
          /\ password = <<>>
          /\ ~screen.warning
          /\ screen.strength = <<>>

\* a password of 5 characters is shown with the advisory and the Weak bucket
C6_Witness ==
    /\ pc = "done"
    /\ Len(password) = 5
    /\ screen.warning
    /\ screen.strength[1] = "Weak"

\* the cells of the report that are neither the title, the password, the
\* timestamp nor a prediction
OtherCells ==
    {c \in DOMAIN report :
        report[c].label \notin {"", "Password", "Timestamp"}
                               \cup {ModelNames[j] : j \in DOMAIN ModelNames}}

\* the report holds the password, a timestamp and the four entries in order
ReportHasRecord ==
    /\ Len(report) = 3 + Len(ModelNames)
    /\ report[2] = [label |-> "Password", text |-> Str(password)]
    /\ report[3].label = "Timestamp"
    /\ report[3].text \in Times
    /\ \A j \in DOMAIN ModelNames :
          /\ report[3 + j].label = ModelNames[j]
          /\ report[3 + j] = [label |-> predictions[j][1], text |-> predictions[j][2]]

\* C7 as stated: the report holds the password, the length-heuristic bucket,
\* the four prediction entries in order and a timestamp.
C7_Original ==
    pc = "done" =>
        /\ ReportHasRecord
        /\ \E c \in DOMAIN report :
              /\ report[c].label \notin {ModelNames[j] : j \in DOMAIN ModelNames}
              /\ report[c].text \in {screen.strength[1], screen.strength[2]}

\* C7 amended: the report holds the password, the four prediction entries in
\* the fixed order and a timestamp, and nothing else but its title: the
\* length-heuristic bucket is not in it.  Writing it leaves the prediction
\* record as it was.
C7_ReportContents ==
    /\ [](pc = "done" =>
            /\ ReportHasRecord
            /\ report[1] = [label |-> "", text |-> "Password Strength Report"]
            /\ OtherCells = {}
            /\ Keys(predictions) = ModelNames)
    /\ [][(pc # "done" /\ pc' = "done") => predictions' = predictions]_vars

\* a report with a failed and a successful entry has been written for the
\* thirteen-character password
C7_Witness ==
    /\ pc = "done"
    /\ password = Sunshine
    /\ Len(report) = 7
    /\ report[2].text = "Sunshine2024!"
    /\ report[4].text = "Strong"
    /\ report[7].text = "Error: y contains previously unseen labels"

\* C8: a second run of the ensemble on the same features, with classifiers
\* and decoder that do what they did the first time, returns the same record:
\* same keys, same order, same values.
C8_SameRecordOnRerun ==
    (Returned /\ prev # <<>>) =>
        /\ Len(predictions) = Len(prev)
        /\ \A j \in DOMAIN prev : predictions[j] = prev[j]

\* the second run has returned a record with failed and successful entries
C8_Witness ==
    /\ pc = "done"
    /\ prev # <<>>
    /\ predictions = prev
    /\ predictions[1][2] = "Error: Weak"
    /\ predictions[2][2] = "Weak"

\* C9: the entry of a failed classifier is "Error: " followed by the failure's
\* description, and differs from every label the decoder returns, whatever the
\* description; an entry is a label exactly when its classifier did not fail,
\* and the page shows exactly the failed entries in the default style.
C9_MarkerDistinguishable ==
    /\ \A e \in Descs \cup {UnseenDesc} : \A l \in Labels : ErrorMarker(e) # l
    /\ \A j \in DOMAIN predictions :
          /\ Failed(j) <=> predictions[j][2] \notin Labels
          /\ behaviour[j][1] = "raises" =>
                predictions[j][2] = "Error: " \o behaviour[j][2]
          /\ (behaviour[j][1] = "returns" /\ Failed(j)) =>
                predictions[j][2] = "Error: " \o UnseenDesc
    /\ \A j \in DOMAIN screen.lines :
          Failed(j) <=> screen.lines[j].color = "black"

\* a classifier failed with a description that reads like a label, next to a
\* classifier that returned that label
C9_Witness ==
    /\ pc = "done"
    /\ behaviour[3] = <<"raises", "Weak">>
    /\ predictions[3][2] = "Error: Weak"
    /\ predictions[4][2] = "Weak"
    /\ screen.lines[3].color = "black"
    /\ screen.lines[4].color = "red"

\* the calls and writes of iteration j, given what its classifier did
IterationCalls(j) ==
    IF behaviour[j][1] = "raises"
    THEN <<(<<"predict", ModelNames[j]>>), (<<"write", ModelNames[j]>>)>>
    ELSE <<(<<"predict", ModelNames[j]>>), (<<"decode", ModelNames[j]>>),
           (<<"write", ModelNames[j]>>)>>

RECURSIVE CallsUpTo(_)
CallsUpTo(j) == IF j = 0 THEN <<>> ELSE CallsUpTo(j - 1) \o IterationCalls(j)

\* the value iteration j writes
EntryOf(j) ==
    IF behaviour[j][1] = "raises" THEN "Error: " \o behaviour[j][2]
    ELSE IF behaviour[j][2] + 1 \in DOMAIN classes_ THEN classes_[behaviour[j][2] + 1]
    ELSE "Error: " \o UnseenDesc

\* C10: in one invocation the classifiers are taken in the declared order;
\* predict is called once per classifier, also after a failure; decode is
\* called only after a predict that returned; each entry is written once and
\* stays as written.
C10_OrderedOnce ==
    /\ pc \in {"predict", "done"} =>
          /\ calls = CallsUpTo(i - 1)
          /\ Len(predictions) = i - 1
          /\ \A j \in DOMAIN predictions : predictions[j] = <<ModelNames[j], EntryOf(j)>>
    /\ pc = "decode" =>
          /\ behaviour[i][1] = "returns"
          /\ calls = Append(CallsUpTo(i - 1), <<"predict", ModelNames[i]>>)
          /\ Len(predictions) = i - 1
          /\ \A j \in DOMAIN predictions : predictions[j] = <<ModelNames[j], EntryOf(j)>>
    /\ \A a, b \in DOMAIN calls : a # b => calls[a] # calls[b]

\* an invocation in which the second classifier failed in predict and the
\* third in decode has made its calls and writes
C10_Witness ==
    /\ pc = "done"
    /\ Len(calls) = 10
    /\ behaviour[2][1] = "raises"
    /\ behaviour[3] = <<"returns", Len(classes_)>>
    /\ calls[4] = <<"predict", "Random Forest">>
    /\ calls[5] = <<"write", "Random Forest">>
    /\ calls[6] = <<"predict", "K-Nearest Neighbors">>
====
